---- MODULE Spec2Model ----
(***************************************************************************)
(* A model of src/src/lib.rs: the TaxBitExportRec record, its equality,    *)
(* ordering, asset classification, display string and CSV field adapters.  *)
(*                                                                         *)
(* Strings are sequences of one-character strings; their order is the      *)
(* byte-wise lexicographic order of Rust's String.  A Decimal is a record  *)
(* [m, e] standing for m / 10^e (mantissa and scale, as rust_decimal keeps *)
(* it).  Option<T> is a sequence of length 0 (None) or 1 (Some).           *)
(***************************************************************************)
EXTENDS Integers, Sequences, FiniteSets, TLC

(* ------------------------------------------------------------------ *)
(* Characters and strings                                              *)
(* ------------------------------------------------------------------ *)

\* The characters the model uses, in increasing byte order.
Alphabet ==
    <<" ", "+", ",", "-", ".",
      "0", "1", "2", "3", "4", "5", "6", "7", "8", "9", ":",
      "A", "B", "C", "D", "E", "F", "G", "H", "I", "J", "K", "L", "M",
      "N", "O", "P", "Q", "R", "S", "T", "U", "V", "W", "X", "Y", "Z",
      "a", "b", "c", "d", "e", "f", "g", "h", "i", "j", "k", "l", "m",
      "n", "o", "p", "q", "r", "s", "t", "u", "v", "w", "x", "y", "z">>

\* Position of a character in byte order.
CharOrd(c) == CHOOSE i \in 1..Len(Alphabet) : Alphabet[i] = c

LowerCase == <<"a", "b", "c", "d", "e", "f", "g", "h", "i", "j", "k", "l", "m",
               "n", "o", "p", "q", "r", "s", "t", "u", "v", "w", "x", "y", "z">>
UpperCase == <<"A", "B", "C", "D", "E", "F", "G", "H", "I", "J", "K", "L", "M",
               "N", "O", "P", "Q", "R", "S", "T", "U", "V", "W", "X", "Y", "Z">>

\* char::to_uppercase on the model's alphabet.
CharToUpper(c) ==
    IF \E i \in 1..Len(LowerCase) : LowerCase[i] = c
    THEN UpperCase[CHOOSE i \in 1..Len(LowerCase) : LowerCase[i] = c]
    ELSE c

\* String::to_uppercase.
to_uppercase(s) == [i \in 1..Len(s) |-> CharToUpper(s[i])]

\* String::is_empty.
is_empty(s) == Len(s) = 0

\* Ordering values of core::cmp::Ordering.
Ordering == {"Less", "Equal", "Greater"}

\* i64 / bool comparison (false < true when encoded 0 / 1).
IntCmp(x, y) == IF x < y THEN "Less" ELSE IF x > y THEN "Greater" ELSE "Equal"

BoolCmp(x, y) == IntCmp(IF x THEN 1 ELSE 0, IF y THEN 1 ELSE 0)

\* String::partial_cmp: byte-wise lexicographic, a proper prefix is Less.
RECURSIVE StrCmp(_, _)
StrCmp(s, t) ==
    IF is_empty(s) /\ is_empty(t) THEN "Equal"
    ELSE IF is_empty(s) THEN "Less"
    ELSE IF is_empty(t) THEN "Greater"
    ELSE IF CharOrd(Head(s)) < CharOrd(Head(t)) THEN "Less"
    ELSE IF CharOrd(Head(s)) > CharOrd(Head(t)) THEN "Greater"
    ELSE StrCmp(Tail(s), Tail(t))

\* Concatenation of a sequence of strings with a separator (write! with commas).
RECURSIVE Join(_, _)
Join(parts, sep) ==
    IF Len(parts) = 0 THEN <<>>
    ELSE IF Len(parts) = 1 THEN parts[1]
    ELSE parts[1] \o sep \o Join(Tail(parts), sep)

(* ------------------------------------------------------------------ *)
(* Decimal and Option<Decimal>                                         *)
(* ------------------------------------------------------------------ *)

RECURSIVE Pow10(_)
Pow10(n) == IF n = 0 THEN 1 ELSE 10 * Pow10(n - 1)

Dec(m, e) == [m |-> m, e |-> e]

\* Decimal::cmp: both sides are rescaled to the larger scale, then the
\* mantissas are compared.
DecCmp(x, y) ==
    LET s == IF x.e > y.e THEN x.e ELSE y.e
    IN  IntCmp(x.m * Pow10(s - x.e), y.m * Pow10(s - y.e))

\* Decimal::eq is cmp == Equal.
DecEq(x, y) == DecCmp(x, y) = "Equal"

None == <<>>
Some(v) == <<v>>
is_some(o) == Len(o) = 1
is_none(o) == Len(o) = 0

\* Option<Decimal>::eq (derived): None == None, Some(x) == Some(y) iff x == y.
OptDecEq(x, y) ==
    IF is_some(x) /\ is_some(y) THEN DecEq(x[1], y[1])
    ELSE is_none(x) /\ is_none(y)

\* Option<Decimal>::partial_cmp (derived): None is less than every Some,
\* two Somes compare by their contents.  The result is always Some(_).
OptDecPartialCmp(x, y) ==
    IF is_some(x) /\ is_some(y) THEN DecCmp(x[1], y[1])
    ELSE IF is_none(x) /\ is_none(y) THEN "Equal"
    ELSE IF is_none(x) THEN "Less"
    ELSE "Greater"

(* ------------------------------------------------------------------ *)
(* TaxBitRecType                                                       *)
(* ------------------------------------------------------------------ *)

\* The variants of the transaction-type enumeration, in the order used for
\* comparison.  The enumeration lives in the taxbitrec crate; lib.rs fixes
\* only that Buy is less than Expense (test_partial_ord).
TaxBitRecTypeOrder ==
    <<"Buy", "Sale", "Trade", "Income", "Expense", "TransferIn", "TransferOut",
      "GiftSent", "GiftReceived", "Unknown", "Invalid">>

TaxBitRecType == {TaxBitRecTypeOrder[i] : i \in 1..Len(TaxBitRecTypeOrder)}

TypeOrdinal(t) == CHOOSE i \in 1..Len(TaxBitRecTypeOrder) : TaxBitRecTypeOrder[i] = t

TypeCmp(x, y) == IntCmp(TypeOrdinal(x), TypeOrdinal(y))

(* ------------------------------------------------------------------ *)
(* TaxBitExportRec                                                     *)
(* ------------------------------------------------------------------ *)

Fields ==
    {"time", "type_txs", "received_quantity", "received_currency",
     "sent_quantity", "sent_currency", "fee_currency", "fee_amount",
     "market_value", "source", "internal_transfer", "external_id"}

\* TaxBitExportRec::new (Default::default calls it).
new ==
    [time |-> 0,
     type_txs |-> "Unknown",
     received_quantity |-> None,
     received_currency |-> <<>>,
     sent_quantity |-> None,
     sent_currency |-> <<>>,
     fee_currency |-> <<>>,
     fee_amount |-> None,
     market_value |-> None,
     source |-> <<>>,
     internal_transfer |-> FALSE,
     external_id |-> <<>>]

default == new

\* Results of operations that may panic.
Ok(v) == [ok |-> TRUE, val |-> v]
Panic(msg) == [ok |-> FALSE, val |-> msg]

NoCurrencyField ==
    <<"n", "o", "-", "c", "u", "r", "r", "e", "n", "c", "y", "-", "f", "i", "e", "l", "d">>

\* get_asset with Trade listed among the outgoing types.
get_asset_trade_outgoing(self) ==
    IF self.type_txs \in {"Expense", "TransferOut", "GiftSent", "Sale", "Trade"}
    THEN Ok(self.sent_currency)
    ELSE IF self.type_txs \in {"Buy", "TransferIn", "Income", "GiftReceived"}
    THEN Ok(self.received_currency)
    ELSE IF self.type_txs = "Invalid"
    THEN IF ~is_empty(self.received_currency) THEN Ok(self.received_currency)
         ELSE IF ~is_empty(self.sent_currency) THEN Ok(self.sent_currency)
         ELSE IF is_empty(self.fee_currency) THEN Ok(self.fee_currency)
         ELSE Ok(NoCurrencyField)
    ELSE Panic(<<"S", "N", "H">>)

\* get_asset with Unknown handled by the Invalid arm instead of panicking.
get_asset_unknown_falls_back(self) ==
    IF self.type_txs \in {"Expense", "TransferOut", "GiftSent", "Sale"}
    THEN Ok(self.sent_currency)
    ELSE IF self.type_txs \in {"Buy", "TransferIn", "Income", "GiftReceived", "Trade"}
    THEN Ok(self.received_currency)
    ELSE IF ~is_empty(self.received_currency) THEN Ok(self.received_currency)
    ELSE IF ~is_empty(self.sent_currency) THEN Ok(self.sent_currency)
    ELSE IF is_empty(self.fee_currency) THEN Ok(self.fee_currency)
    ELSE Ok(NoCurrencyField)

\* TaxBitExportRec::get_asset.
get_asset(self) ==
    IF self.type_txs \in {"Expense", "TransferOut", "GiftSent", "Sale"}
    THEN Ok(self.sent_currency)
    ELSE IF self.type_txs \in {"Buy", "TransferIn", "Income", "GiftReceived", "Trade"}
    THEN Ok(self.received_currency)
    ELSE IF self.type_txs = "Invalid"
    THEN IF ~is_empty(self.received_currency) THEN Ok(self.received_currency)
         ELSE IF ~is_empty(self.sent_currency) THEN Ok(self.sent_currency)
         ELSE IF is_empty(self.fee_currency) THEN Ok(self.fee_currency)
         ELSE Ok(NoCurrencyField)
    ELSE Panic(<<"S", "N", "H">>)

\* eq with the market_value comparison left out.
eq_without_market_value(self, other) ==
    /\ self.time = other.time
    /\ self.type_txs = other.type_txs
    /\ self.received_currency = other.received_currency
    /\ self.sent_currency = other.sent_currency
    /\ self.fee_currency = other.fee_currency
    /\ OptDecEq(self.received_quantity, other.received_quantity)
    /\ OptDecEq(self.sent_quantity, other.sent_quantity)
    /\ OptDecEq(self.fee_amount, other.fee_amount)
    /\ self.source = other.source
    /\ self.internal_transfer = other.internal_transfer
    /\ self.external_id = other.external_id

\* PartialEq::eq.
eq(self, other) ==
    /\ self.time = other.time
    /\ self.type_txs = other.type_txs
    /\ self.received_currency = other.received_currency
    /\ self.sent_currency = other.sent_currency
    /\ self.fee_currency = other.fee_currency
    /\ OptDecEq(self.received_quantity, other.received_quantity)
    /\ OptDecEq(self.sent_quantity, other.sent_quantity)
    /\ OptDecEq(self.fee_amount, other.fee_amount)
    /\ OptDecEq(self.market_value, other.market_value)
    /\ self.source = other.source
    /\ self.internal_transfer = other.internal_transfer
    /\ self.external_id = other.external_id

\* One step of the chain in partial_cmp: a non-Equal result returns, an Equal
\* one falls through to the rest.
Chain(ord, rest) == IF ord = "Equal" THEN rest ELSE ord

\* partial_cmp with sent_currency compared before received_currency.
partial_cmp_sent_before_received(self, other) ==
    Chain(IntCmp(self.time, other.time),
    Chain(TypeCmp(self.type_txs, other.type_txs),
    Chain(StrCmp(self.sent_currency, other.sent_currency),
    Chain(StrCmp(self.received_currency, other.received_currency),
    Chain(StrCmp(self.fee_currency, other.fee_currency),
    Chain(OptDecPartialCmp(self.received_quantity, other.received_quantity),
    Chain(OptDecPartialCmp(self.sent_quantity, other.sent_quantity),
    Chain(OptDecPartialCmp(self.fee_amount, other.fee_amount),
    Chain(OptDecPartialCmp(self.market_value, other.market_value),
    Chain(StrCmp(self.source, other.source),
    Chain(BoolCmp(self.internal_transfer, other.internal_transfer),
          StrCmp(self.external_id, other.external_id))))))))))))

\* partial_cmp that stops after internal_transfer, external_id left out.
partial_cmp_without_external_id(self, other) ==
    Chain(IntCmp(self.time, other.time),
    Chain(TypeCmp(self.type_txs, other.type_txs),
    Chain(StrCmp(self.received_currency, other.received_currency),
    Chain(StrCmp(self.sent_currency, other.sent_currency),
    Chain(StrCmp(self.fee_currency, other.fee_currency),
    Chain(OptDecPartialCmp(self.received_quantity, other.received_quantity),
    Chain(OptDecPartialCmp(self.sent_quantity, other.sent_quantity),
    Chain(OptDecPartialCmp(self.fee_amount, other.fee_amount),
    Chain(OptDecPartialCmp(self.market_value, other.market_value),
    Chain(StrCmp(self.source, other.source),
          BoolCmp(self.internal_transfer, other.internal_transfer)))))))))))

\* PartialOrd::partial_cmp.  Every field comparison yields Some(_), so the
\* result is one of Less, Equal, Greater and never "None".
partial_cmp(self, other) ==
    Chain(IntCmp(self.time, other.time),
    Chain(TypeCmp(self.type_txs, other.type_txs),
    Chain(StrCmp(self.received_currency, other.received_currency),
    Chain(StrCmp(self.sent_currency, other.sent_currency),
    Chain(StrCmp(self.fee_currency, other.fee_currency),
    Chain(OptDecPartialCmp(self.received_quantity, other.received_quantity),
    Chain(OptDecPartialCmp(self.sent_quantity, other.sent_quantity),
    Chain(OptDecPartialCmp(self.fee_amount, other.fee_amount),
    Chain(OptDecPartialCmp(self.market_value, other.market_value),
    Chain(StrCmp(self.source, other.source),
    Chain(BoolCmp(self.internal_transfer, other.internal_transfer),
          StrCmp(self.external_id, other.external_id))))))))))))

\* Ord::cmp.
cmp(self, other) ==
    LET o == partial_cmp(self, other)
    IN  IF o = "None" THEN Panic("SNH") ELSE Ok(o)

(* ------------------------------------------------------------------ *)
(* Display                                                             *)
(* ------------------------------------------------------------------ *)

Digits == <<"0", "1", "2", "3", "4", "5", "6", "7", "8", "9">>

RECURSIVE NatToString(_)
NatToString(n) ==
    IF n < 10 THEN <<Digits[n + 1]>>
    ELSE NatToString(n \div 10) \o <<Digits[(n % 10) + 1]>>

\* s left-padded with "0" to n characters.
RECURSIVE ZeroPad(_, _)
ZeroPad(s, n) == IF Len(s) >= n THEN s ELSE ZeroPad(<<"0">> \o s, n)

\* Decimal's Display: the integer part, and when the scale is not zero a
\* point and exactly `scale` fractional digits.
DecToString(d) ==
    LET a == IF d.m < 0 THEN 0 - d.m ELSE d.m
        sign == IF d.m < 0 THEN <<"-">> ELSE <<>>
        int == NatToString(a \div Pow10(d.e))
        frac == ZeroPad(NatToString(a % Pow10(d.e)), d.e)
    IN  IF d.e = 0 THEN sign \o int ELSE sign \o int \o <<".">> \o frac

\* dec_utils::dec_to_string_or_empty.
dec_to_string_or_empty(o) == IF is_some(o) THEN DecToString(o[1]) ELSE <<>>

\* The date and time of day of the timestamps the model uses.
DateTimeOf(ms) ==
    IF ms < 0
    THEN <<"1", "9", "6", "9", "-", "1", "2", "-", "3", "1", "T",
           "2", "3", ":", "5", "9", ":", "5", "9", ".">>
         \o ZeroPad(NatToString(1000 + ms), 3)
    ELSE <<"1", "9", "7", "0", "-", "0", "1", "-", "0", "1", "T",
           "0", "0", ":", "0", "0", ":", "0", "0", ".">>
         \o ZeroPad(NatToString(ms), 3)

\* time_ms_conversions::time_ms_to_utc_string: the timestamp as text, the
\* same text for the same timestamp (the crate decides its exact shape).
time_ms_to_utc_string(ms) == DateTimeOf(ms) \o <<"+", "0", "0", ":", "0", "0">>

\* Debug of a TaxBitRecType: the variant's name.
TypeDebugTable ==
    [t \in TaxBitRecType |->
        CASE t = "Buy" -> <<"B", "u", "y">>
          [] t = "Sale" -> <<"S", "a", "l", "e">>
          [] t = "Trade" -> <<"T", "r", "a", "d", "e">>
          [] t = "Income" -> <<"I", "n", "c", "o", "m", "e">>
          [] t = "Expense" -> <<"E", "x", "p", "e", "n", "s", "e">>
          [] t = "TransferIn" -> <<"T", "r", "a", "n", "s", "f", "e", "r", "I", "n">>
          [] t = "TransferOut" -> <<"T", "r", "a", "n", "s", "f", "e", "r", "O", "u", "t">>
          [] t = "GiftSent" -> <<"G", "i", "f", "t", "S", "e", "n", "t">>
          [] t = "GiftReceived" ->
               <<"G", "i", "f", "t", "R", "e", "c", "e", "i", "v", "e", "d">>
          [] t = "Unknown" -> <<"U", "n", "k", "n", "o", "w", "n">>
          [] t = "Invalid" -> <<"I", "n", "v", "a", "l", "i", "d">>]

TypeDebug(t) == TypeDebugTable[t]

\* Display of a bool.
BoolDisplay(b) == IF b THEN <<"t", "r", "u", "e">> ELSE <<"f", "a", "l", "s", "e">>

\* Display::fmt: the twelve arguments of write!, in the order they are passed.
fmt(self) ==
    Join(<<time_ms_to_utc_string(self.time),
           TypeDebug(self.type_txs),
           dec_to_string_or_empty(self.sent_quantity),
           self.sent_currency,
           dec_to_string_or_empty(self.received_quantity),
           self.received_currency,
           self.fee_currency,
           dec_to_string_or_empty(self.fee_amount),
           dec_to_string_or_empty(self.market_value),
           self.source,
           BoolDisplay(self.internal_transfer),
           self.external_id>>, <<",">>)

(* ------------------------------------------------------------------ *)
(* CSV field adapters                                                  *)
(* ------------------------------------------------------------------ *)

\* Result<T, E> of a deserializer.
Err(msg) == [ok |-> FALSE, err |-> msg]

IsDigit(c) == \E i \in 1..Len(Digits) : Digits[i] = c
DigitVal(c) == (CHOOSE i \in 1..Len(Digits) : Digits[i] = c) - 1
AllDigits(s) == \A i \in 1..Len(s) : IsDigit(s[i])

\* The number a string of digits writes.
RECURSIVE ParseNat(_)
ParseNat(s) ==
    IF Len(s) = 0 THEN 0
    ELSE 10 * ParseNat(SubSeq(s, 1, Len(s) - 1)) + DigitVal(s[Len(s)])

\* Positions of character c in s.
Positions(s, c) == {i \in 1..Len(s) : s[i] = c}

\* Decimal::from_str on an unsigned numeral: digits with at most one point;
\* the scale is the number of digits after the point.
DecFromPlain(s) ==
    LET dots == Positions(s, ".")
        dot == IF dots = {} THEN Len(s) + 1 ELSE CHOOSE i \in dots : TRUE
        ip == SubSeq(s, 1, dot - 1)
        fp == SubSeq(s, dot + 1, Len(s))
    IN  IF Cardinality(dots) > 1 \/ ~AllDigits(ip) \/ ~AllDigits(fp)
           \/ Len(ip) + Len(fp) = 0
        THEN Err("Invalid decimal")
        ELSE Ok(Dec(ParseNat(ip \o fp), Len(fp)))

\* Decimal::from_scientific: <numeral>e<exponent>; a negative exponent adds
\* to the scale, a positive one is taken from the scale and then multiplies.
DecFromScientific(s) ==
    LET es == Positions(s, "e") \cup Positions(s, "E")
        ep == IF es = {} THEN Len(s) + 1 ELSE CHOOSE i \in es : TRUE
        base == DecFromPlain(SubSeq(s, 1, ep - 1))
        ex == SubSeq(s, ep + 1, Len(s))
        neg == Len(ex) > 0 /\ ex[1] = "-"
        exd == IF Len(ex) > 0 /\ ex[1] \in {"-", "+"} THEN Tail(ex) ELSE ex
        n == ParseNat(exd)
    IN  IF Cardinality(es) # 1 \/ ~base.ok \/ Len(exd) = 0 \/ ~AllDigits(exd)
        THEN Err("Invalid decimal")
        ELSE IF neg THEN Ok(Dec(base.val.m, base.val.e + n))
        ELSE IF n <= base.val.e THEN Ok(Dec(base.val.m, base.val.e - n))
        ELSE Ok(Dec(base.val.m * Pow10(n - base.val.e), 0))

\* Deserialize for Decimal: from_str, or else from_scientific.
DecDeserialize(s) ==
    IF DecFromPlain(s).ok THEN DecFromPlain(s) ELSE DecFromScientific(s)

\* Deserialize for Option<Decimal> from a CSV field: an empty field is None.
OptDecDeserialize(s) ==
    IF is_empty(s) THEN Ok(None)
    ELSE IF DecDeserialize(s).ok THEN Ok(Some(DecDeserialize(s).val))
    ELSE DecDeserialize(s)

\* Serialize for Option<Decimal> to a CSV field: None is an empty field.
OptDecSerialize(o) == IF is_some(o) THEN DecToString(o[1]) ELSE <<>>

\* The seconds the model's timestamps fall in, as date and time of day.
EpochSecond == <<"1", "9", "7", "0", "-", "0", "1", "-", "0", "1", "T",
                 "0", "0", ":", "0", "0", ":", "0", "0">>
SecondBeforeEpoch == <<"1", "9", "6", "9", "-", "1", "2", "-", "3", "1", "T",
                       "2", "3", ":", "5", "9", ":", "5", "9">>

\* serde_utc_time_ms::de_string_to_utc_time_ms: <date>T<time>[.<millis>]Z to
\* milliseconds since the epoch.
de_string_to_utc_time_ms(s) ==
    LET n == Len(EpochSecond)
        head == SubSeq(s, 1, n)
        rest == SubSeq(s, n + 1, Len(s))
        fracOk == \/ rest = <<"Z">>
                  \/ /\ Len(rest) = 5
                     /\ rest[1] = "."
                     /\ AllDigits(SubSeq(rest, 2, 4))
                     /\ rest[5] = "Z"
        frac == IF Len(rest) = 5 THEN ParseNat(SubSeq(rest, 2, 4)) ELSE 0
    IN  IF Len(s) > n /\ fracOk /\ head = EpochSecond THEN Ok(frac)
        ELSE IF Len(s) > n /\ fracOk /\ head = SecondBeforeEpoch THEN Ok(frac - 1000)
        ELSE Err("Invalid date time")

\* serde_utc_time_ms::se_time_ms_to_utc_z_string: millisecond precision, Z suffix.
se_time_ms_to_utc_z_string(ms) == DateTimeOf(ms) \o <<"Z">>

\* Deserialize for TaxBitRecType: the text is a variant's name.
TypeDeserialize(s) ==
    IF \E t \in TaxBitRecType : TypeDebugTable[t] = s
    THEN Ok(CHOOSE t \in TaxBitRecType : TypeDebugTable[t] = s)
    ELSE Err("unknown variant")

\* Serialize for TaxBitRecType.
TypeSerialize(t) == TypeDebugTable[t]

TRUE_str == <<"T", "R", "U", "E">>
FALSE_str == <<"F", "A", "L", "S", "E">>

\* de_string_true_false_to_bool whose wildcard arm yields false.
de_string_true_false_to_bool_lenient(s) ==
    LET u == to_uppercase(s)
    IN  IF u = TRUE_str THEN Ok(TRUE) ELSE Ok(FALSE)

\* de_string_true_false_to_bool.
de_string_true_false_to_bool(s) ==
    LET u == to_uppercase(s)
    IN  IF u = TRUE_str THEN Ok(TRUE)
        ELSE IF u = FALSE_str THEN Ok(FALSE)
        ELSE Err("Expecting true or false in upper or lower case")

\* se_bool_to_uppercase_string_true_false with the two literals exchanged.
se_bool_exchanged(b) == IF b THEN FALSE_str ELSE TRUE_str

\* se_bool_to_uppercase_string_true_false.
se_bool_to_uppercase_string_true_false(b) == IF b THEN TRUE_str ELSE FALSE_str

\* The CSV header: column names in file order.
Header ==
    <<"Date", "Transaction Type", "Received Quantity", "Received Currency",
      "Sent Quantity", "Sent Currency", "Fee Currency", "Fee Amount",
      "Market Value", "Source", "Internal Transfer", "External ID">>

Columns == {Header[i] : i \in 1..Len(Header)}

\* Deserialize for TaxBitExportRec (derived): each column through its
\* adapter; the first failing column fails the row.
Deserialize(r) ==
    LET time == de_string_to_utc_time_ms(r["Date"])
        type == TypeDeserialize(r["Transaction Type"])
        rq == OptDecDeserialize(r["Received Quantity"])
        sq == OptDecDeserialize(r["Sent Quantity"])
        fa == OptDecDeserialize(r["Fee Amount"])
        mv == OptDecDeserialize(r["Market Value"])
        it == de_string_true_false_to_bool(r["Internal Transfer"])
    IN  IF ~time.ok THEN time
        ELSE IF ~type.ok THEN type
        ELSE IF ~rq.ok THEN rq
        ELSE IF ~sq.ok THEN sq
        ELSE IF ~fa.ok THEN fa
        ELSE IF ~mv.ok THEN mv
        ELSE IF ~it.ok THEN it
        ELSE Ok([time |-> time.val,
                 type_txs |-> type.val,
                 received_quantity |-> rq.val,
                 received_currency |-> r["Received Currency"],
                 sent_quantity |-> sq.val,
                 sent_currency |-> r["Sent Currency"],
                 fee_currency |-> r["Fee Currency"],
                 fee_amount |-> fa.val,
                 market_value |-> mv.val,
                 source |-> r["Source"],
                 internal_transfer |-> it.val,
                 external_id |-> r["External ID"]])

\* Serialize for TaxBitExportRec (derived).
Serialize(self) ==
    [c \in Columns |->
        CASE c = "Date" -> se_time_ms_to_utc_z_string(self.time)
          [] c = "Transaction Type" -> TypeSerialize(self.type_txs)
          [] c = "Received Quantity" -> OptDecSerialize(self.received_quantity)
          [] c = "Received Currency" -> self.received_currency
          [] c = "Sent Quantity" -> OptDecSerialize(self.sent_quantity)
          [] c = "Sent Currency" -> self.sent_currency
          [] c = "Fee Currency" -> self.fee_currency
          [] c = "Fee Amount" -> OptDecSerialize(self.fee_amount)
          [] c = "Market Value" -> OptDecSerialize(self.market_value)
          [] c = "Source" -> self.source
          [] c = "Internal Transfer" ->
               se_bool_to_uppercase_string_true_false(self.internal_transfer)
          [] c = "External ID" -> self.external_id]

(* ------------------------------------------------------------------ *)
(* State                                                               *)
(* ------------------------------------------------------------------ *)

VARIABLES
    recs,       \* the records at hand: recs[1] is tbr, recs[2] tbr_other, recs[3] a third
    edits,      \* how many fields of them have been assigned since new()
    res,        \* the last operation applied to them and what it returned
    row,        \* a CSV data row: column name -> field text
    parsed,     \* what deserializing row gave
    out_row,    \* what serializing the parsed record gave
    reparsed    \* what deserializing out_row gave

vars == <<recs, edits, res, row, parsed, out_row, reparsed>>

csv_vars == <<row, parsed, out_row, reparsed>>

\* Bounds of the model: how many fields, over all records, are assigned.
MaxEdits == 2
MaxTotalEdits == 2
MaxAssetEdits == 3

Str(c) == <<c>>

\* Values a test assigns to a field.
FieldValues(f) ==
    CASE f = "time" -> {-1, 0, 1}
      [] f = "type_txs" -> TaxBitRecType
      [] f = "received_quantity" -> {None, Some(Dec(1, 0)), Some(Dec(10, 1)), Some(Dec(5, 1))}
      [] f = "sent_quantity" -> {None, Some(Dec(1, 0)), Some(Dec(10, 1))}
      [] f = "fee_amount" -> {None, Some(Dec(0, 0)), Some(Dec(1, 0))}
      [] f = "market_value" -> {None, Some(Dec(100, 2)), Some(Dec(2, 0))}
      [] f = "received_currency" -> {<<>>, Str("a"), Str("b")}
      [] f = "sent_currency" -> {<<>>, Str("a"), Str("b")}
      [] f = "fee_currency" -> {<<>>, Str("a"), Str("b")}
      [] f = "source" -> {<<>>, Str("a")}
      [] f = "internal_transfer" -> BOOLEAN
      [] f = "external_id" -> {<<>>, Str("a"), <<"a", "b">>}

\* The transaction types the ordering tests assign.
OrdTypes == {"Unknown", "Buy", "Expense", "Invalid"}

NoRes == [op |-> "none"]

Pairs == (1..3) \X (1..3)

InitRecs ==
    /\ recs = <<new, default, new>>
    /\ edits = 0
    /\ res = NoRes

InitCsvIdle ==
    /\ row = <<>>
    /\ parsed = <<>>
    /\ out_row = <<>>
    /\ reparsed = <<>>

\* A record whose four optional decimals are all present.
normalized ==
    [new EXCEPT !.received_quantity = Some(Dec(1, 0)),
                !.sent_quantity = Some(Dec(1, 0)),
                !.fee_amount = Some(Dec(1, 0)),
                !.market_value = Some(Dec(2, 0))]

InitNormalized ==
    /\ recs = <<normalized, normalized, normalized>>
    /\ edits = 0
    /\ res = NoRes

\* tbr.<f> = v on one of the records (the tests' field assignments); a field
\* is assigned once, to a value other than the one the record started with.
SetField(base, i, f, v, bound) ==
    /\ edits < bound
    /\ recs[i][f] = base[f]
    /\ v # base[f]
    /\ recs' = [recs EXCEPT ![i][f] = v]
    /\ edits' = edits + 1
    /\ res' = NoRes
    /\ UNCHANGED csv_vars

\* a == b for every pair of the records.
Eq ==
    /\ res = NoRes
    /\ res' = [op |-> "eq", val |-> [p \in Pairs |-> eq(recs[p[1]], recs[p[2]])]]
    /\ UNCHANGED <<recs, edits, csv_vars>>

\* a.partial_cmp(&b) for every pair of the records.
PartialCmp ==
    /\ res = NoRes
    /\ res' = [op |-> "partial_cmp",
               val |-> [p \in Pairs |-> partial_cmp(recs[p[1]], recs[p[2]])]]
    /\ UNCHANGED <<recs, edits, csv_vars>>

\* a.cmp(&b) for every pair of the records, as a sort calls it.
Cmp ==
    /\ res = NoRes
    /\ res' = [op |-> "cmp", val |-> [p \in Pairs |-> cmp(recs[p[1]], recs[p[2]])]]
    /\ UNCHANGED <<recs, edits, csv_vars>>

\* tbr.get_asset().
GetAsset ==
    /\ res = NoRes
    /\ res' = [op |-> "get_asset", val |-> get_asset(recs[1])]
    /\ UNCHANGED <<recs, edits, csv_vars>>

\* format!("{tbr}").
Display ==
    /\ res = NoRes
    /\ res' = [op |-> "fmt", val |-> fmt(recs[1])]
    /\ UNCHANGED <<recs, edits, csv_vars>>

OrdValues(f) == IF f = "type_txs" THEN OrdTypes ELSE FieldValues(f)

Init == InitRecs /\ InitCsvIdle

\* Equality and ordering of records built from new().
Next ==
    \/ \E i \in 1..3, f \in Fields : \E v \in OrdValues(f) : SetField(new, i, f, v, MaxEdits)
    \/ Eq
    \/ PartialCmp
    \/ Cmp

Spec == Init /\ [][Next]_vars

\* Ordering of records whose optional decimals start out present.
InitTotal == InitNormalized /\ InitCsvIdle

NextTotal ==
    \/ \E i \in 1..3, f \in Fields :
          \E v \in OrdValues(f) : SetField(normalized, i, f, v, MaxTotalEdits)
    \/ Cmp

SpecTotal == InitTotal /\ [][NextTotal]_vars

\* Field texts a data row may carry in each column.
ColumnTexts(c) ==
    CASE c = "Date" ->
           {EpochSecond \o <<".", "0", "0", "1", "Z">>,
            EpochSecond \o <<"Z">>,
            SecondBeforeEpoch \o <<".", "9", "9", "9", "Z">>,
            EpochSecond}
      [] c = "Transaction Type" ->
           {TypeDebugTable["Income"], TypeDebugTable["Buy"], <<"i", "n", "c", "o", "m", "e">>}
      [] c = "Received Quantity" ->
           {<<>>, <<"1">>, <<"1", ".", "0">>, <<"3", "e", "-", "7">>, <<"x">>}
      [] c = "Received Currency" -> {<<>>, Str("a")}
      [] c = "Sent Quantity" -> {<<>>, <<"0", ".", "5">>}
      [] c = "Sent Currency" -> {<<>>}
      [] c = "Fee Currency" -> {<<>>}
      [] c = "Fee Amount" -> {<<>>, <<"1", "e", "1">>}
      [] c = "Market Value" -> {<<>>, <<"0", ".", "1", "0">>}
      [] c = "Source" -> {Str("a")}
      [] c = "Internal Transfer" ->
           {TRUE_str, FALSE_str,
            <<"t", "r", "u", "e">>, <<"f", "a", "l", "s", "e">>,
            <<"T", "r", "u", "e">>, <<"f", "A", "l", "S", "e">>,
            <<>>, <<"T">>, <<"1">>, <<"y", "e", "s">>,
            <<"T", "R", "U", "E", "E">>, <<" ", "T", "R", "U", "E">>}
      [] c = "External ID" -> {<<>>, <<"a", "b">>}

InitCsv ==
    /\ recs = <<new, default, new>>
    /\ edits = 0
    /\ res = NoRes
    /\ \E date \in ColumnTexts("Date"), type \in ColumnTexts("Transaction Type"),
          rq \in ColumnTexts("Received Quantity"), rc \in ColumnTexts("Received Currency"),
          sq \in ColumnTexts("Sent Quantity"), sc \in ColumnTexts("Sent Currency"),
          fc \in ColumnTexts("Fee Currency"), fa \in ColumnTexts("Fee Amount"),
          mv \in ColumnTexts("Market Value"), src \in ColumnTexts("Source"),
          it \in ColumnTexts("Internal Transfer"), id \in ColumnTexts("External ID") :
          row = [c \in Columns |->
                   CASE c = "Date" -> date
                     [] c = "Transaction Type" -> type
                     [] c = "Received Quantity" -> rq
                     [] c = "Received Currency" -> rc
                     [] c = "Sent Quantity" -> sq
                     [] c = "Sent Currency" -> sc
                     [] c = "Fee Currency" -> fc
                     [] c = "Fee Amount" -> fa
                     [] c = "Market Value" -> mv
                     [] c = "Source" -> src
                     [] c = "Internal Transfer" -> it
                     [] c = "External ID" -> id]
    /\ parsed = <<>>
    /\ out_row = <<>>
    /\ reparsed = <<>>

\* reader.deserialize() on the row.
DeserializeRow ==
    /\ parsed = <<>>
    /\ parsed' = <<Deserialize(row)>>
    /\ UNCHANGED <<recs, edits, res, row, out_row, reparsed>>

\* writer.serialize(rec) on the record the row gave.
SerializeRec ==
    /\ parsed # <<>>
    /\ parsed[1].ok
    /\ out_row = <<>>
    /\ out_row' = <<Serialize(parsed[1].val)>>
    /\ UNCHANGED <<recs, edits, res, row, parsed, reparsed>>

\* reader.deserialize() on the row the writer produced.
DeserializeOutRow ==
    /\ out_row # <<>>
    /\ reparsed = <<>>
    /\ reparsed' = <<Deserialize(out_row[1])>>
    /\ UNCHANGED <<recs, edits, res, row, parsed, out_row>>

NextCsv == DeserializeRow \/ SerializeRec \/ DeserializeOutRow

SpecCsv == InitCsv /\ [][NextCsv]_vars

\* Asset classification and display of one record.
NextAsset ==
    \/ \E f \in Fields : \E v \in FieldValues(f) : SetField(new, 1, f, v, MaxAssetEdits)
    \/ GetAsset
    \/ Display

SpecAsset == Init /\ [][NextAsset]_vars

(* ------------------------------------------------------------------ *)
(* Properties                                                          *)
(* ------------------------------------------------------------------ *)

Tbr == recs[1]

OutgoingTypes == {"Expense", "TransferOut", "GiftSent", "Sale"}
IncomingTypes == {"Buy", "TransferIn", "Income", "GiftReceived", "Trade"}

\* C1: get_asset returns sent_currency for Expense, TransferOut, GiftSent and
\* Sale, and received_currency for Buy, TransferIn, Income, GiftReceived and
\* Trade, whatever the other fields hold.
C1_AssetByType ==
    res.op = "get_asset" =>
        /\ Tbr.type_txs \in OutgoingTypes => res.val = Ok(Tbr.sent_currency)
        /\ Tbr.type_txs \in IncomingTypes => res.val = Ok(Tbr.received_currency)

C1_Witness ==
    /\ res.op = "get_asset"
    /\ Tbr.type_txs = "Trade"
    /\ ~is_empty(Tbr.received_currency)
    /\ ~is_empty(Tbr.sent_currency)
    /\ Tbr.received_currency # Tbr.sent_currency
    /\ res.val = Ok(Tbr.received_currency)

\* The priority sequence of the ordering.
CmpOrder ==
    <<"time", "type_txs", "received_currency", "sent_currency", "fee_currency",
      "received_quantity", "sent_quantity", "fee_amount", "market_value",
      "source", "internal_transfer", "external_id">>

DecFields == {"received_quantity", "sent_quantity", "fee_amount", "market_value"}

\* A decimal without trailing fractional zeros: two decimals are numerically
\* equal exactly when these forms are the same.
RECURSIVE Normalize(_)
Normalize(d) ==
    IF d.e > 0 /\ d.m % 10 = 0 THEN Normalize(Dec(d.m \div 10, d.e - 1)) ELSE d

\* Field f of a and b is equal: an optional decimal when both are absent or
\* both present and numerically equal, any other field when the values are the
\* same.
FieldEqual(f, a, b) ==
    IF f \in DecFields
    THEN \/ is_none(a[f]) /\ is_none(b[f])
         \/ is_some(a[f]) /\ is_some(b[f]) /\ Normalize(a[f][1]) = Normalize(b[f][1])
    ELSE a[f] = b[f]

\* The comparison of field f alone.
FieldCmp(f, a, b) ==
    CASE f = "time" -> IntCmp(a[f], b[f])
      [] f = "type_txs" -> TypeCmp(a[f], b[f])
      [] f = "internal_transfer" -> BoolCmp(a[f], b[f])
      [] f \in DecFields -> OptDecPartialCmp(a[f], b[f])
      [] OTHER -> StrCmp(a[f], b[f])

\* Positions in the priority sequence where a and b differ.
Differing(a, b) == {k \in 1..Len(CmpOrder) : ~FieldEqual(CmpOrder[k], a, b)}

First(S) == CHOOSE k \in S : \A j \in S : k <= j

\* The ordering the first differing field alone decides.
ByFirstDifference(a, b) ==
    IF Differing(a, b) = {} THEN "Equal"
    ELSE FieldCmp(CmpOrder[First(Differing(a, b))], a, b)

\* What partial_cmp or cmp returned for a pair.
Verdict(p) == IF res.op = "cmp" THEN res.val[p].val ELSE res.val[p]

\* C2: the ordering of two records is the comparison result of the first
\* field, in the priority sequence, on which they differ, whatever the later
\* fields hold; it is Equal only when no field differs.
C2_OrderByFirstDifference ==
    res.op \in {"partial_cmp", "cmp"} =>
        \A p \in Pairs :
            /\ Verdict(p) = ByFirstDifference(recs[p[1]], recs[p[2]])
            /\ Verdict(p) = "Equal" <=> Differing(recs[p[1]], recs[p[2]]) = {}

C2_Witness ==
    /\ res.op = "partial_cmp"
    /\ \E p \in Pairs : \E k, l \in 1..Len(CmpOrder) :
          /\ k < l
          /\ Differing(recs[p[1]], recs[p[2]]) # {}
          /\ k = First(Differing(recs[p[1]], recs[p[2]]))
          /\ FieldCmp(CmpOrder[k], recs[p[1]], recs[p[2]]) = "Less"
          /\ FieldCmp(CmpOrder[l], recs[p[1]], recs[p[2]]) = "Greater"
          /\ res.val[p] = "Less"

\* An optional decimal is absent in one of a, b and present in the other, and
\* a and b agree on every field of higher priority.
MismatchedPresence(a, b) ==
    \E k \in 1..Len(CmpOrder) :
        /\ CmpOrder[k] \in DecFields
        /\ is_none(a[CmpOrder[k]]) # is_none(b[CmpOrder[k]])
        /\ \A j \in 1..(k - 1) : FieldEqual(CmpOrder[j], a, b)

\* C3: when two records agree on every higher-priority field and an optional
\* decimal is absent in one and present in the other, cmp aborts instead of
\* returning Less, Equal or Greater.
C3_CmpAbortsOnMismatchedPresence ==
    res.op = "cmp" =>
        \A p \in Pairs :
            MismatchedPresence(recs[p[1]], recs[p[2]]) => ~res.val[p].ok

\* C4: a record from new() or default() has type_txs Unknown, and get_asset
\* aborts on a record whose type_txs is Unknown and on no other.
C4_UnknownAborts ==
    /\ edits = 0 => Tbr.type_txs = "Unknown" /\ recs[2].type_txs = "Unknown"
    /\ res.op = "get_asset" => (Tbr.type_txs = "Unknown" <=> ~res.val.ok)

C4_Witness ==
    /\ res.op = "get_asset"
    /\ Tbr.type_txs = "Unknown"
    /\ ~is_empty(Tbr.received_currency)
    /\ ~res.val.ok

\* C5: two records are equal exactly when all twelve fields are equal, an
\* optional decimal being equal when both are absent or both present and
\* numerically equal; new() and default() are equal.
C5_EqIsFieldwise ==
    res.op = "eq" =>
        /\ \A p \in Pairs :
              res.val[p] <=> \A f \in Fields : FieldEqual(f, recs[p[1]], recs[p[2]])
        /\ edits = 0 => res.val[<<1, 2>>]

C5_Witness ==
    /\ res.op = "eq"
    /\ recs[1].received_quantity = Some(Dec(1, 0))
    /\ recs[2].received_quantity = Some(Dec(10, 1))
    /\ res.val[<<1, 2>>]
    /\ ~res.val[<<1, 3>>]

\* The optional decimals of the records are pairwise both present or both absent.
SamePresence ==
    \A i, j \in 1..3 : \A f \in DecFields : is_some(recs[i][f]) <=> is_some(recs[j][f])

Reverse(o) == CASE o = "Less" -> "Greater" [] o = "Greater" -> "Less" [] OTHER -> o

\* C6: over records whose optional decimals are pairwise both present or both
\* absent, cmp is a strict total order consistent with ==: it returns, it is
\* Equal exactly when a == b, cmp(b, a) is the reverse of cmp(a, b), and
\* a < b and b < c give a < c.
C6_StrictTotalOrder ==
    res.op = "cmp" /\ SamePresence =>
        /\ \A p \in Pairs :
              /\ res.val[p].ok
              /\ res.val[p].val \in Ordering
              /\ res.val[p].val = "Equal" <=> eq(recs[p[1]], recs[p[2]])
              /\ res.val[<<p[2], p[1]>>].val = Reverse(res.val[p].val)
        /\ \A i, j, k \in 1..3 :
              res.val[<<i, j>>].val = "Less" /\ res.val[<<j, k>>].val = "Less"
                  => res.val[<<i, k>>].val = "Less"

C6_Witness ==
    /\ res.op = "cmp"
    /\ SamePresence
    /\ is_some(recs[1].received_quantity)
    /\ ~FieldEqual("received_quantity", recs[1], recs[2])
    /\ res.val[<<1, 2>>].val = "Less"
    /\ res.val[<<2, 3>>].val = "Less"
    /\ res.val[<<1, 3>>].val = "Less"

\* The first non-empty of received_currency, sent_currency, fee_currency, or
\* the sentinel.
FirstCurrency(r) ==
    IF ~is_empty(r.received_currency) THEN r.received_currency
    ELSE IF ~is_empty(r.sent_currency) THEN r.sent_currency
    ELSE IF ~is_empty(r.fee_currency) THEN r.fee_currency
    ELSE NoCurrencyField

\* C7: for type_txs Invalid, get_asset returns received_currency if non-empty,
\* else sent_currency if non-empty, else fee_currency if non-empty, else the
\* sentinel "no-currency-field".
C7_InvalidFallback ==
    res.op = "get_asset" /\ Tbr.type_txs = "Invalid" => res.val = Ok(FirstCurrency(Tbr))

\* s and t are the same up to the case of their letters.
SameIgnoringCase(s, t) ==
    /\ Len(s) = Len(t)
    /\ \A i \in 1..Len(s) :
          \/ s[i] = t[i]
          \/ \E k \in 1..Len(LowerCase) :
                {s[i], t[i]} = {LowerCase[k], UpperCase[k]}

\* C8: a row parses only if its Internal Transfer text is TRUE or FALSE up to
\* letter case, and then to true or false respectively; any other text, the
\* empty one included, gives an error and no record.
C8_InternalTransferTokens ==
    parsed # <<>> =>
        LET t == row["Internal Transfer"]
        IN  /\ parsed[1].ok =>
                  \/ SameIgnoringCase(t, TRUE_str) /\ parsed[1].val.internal_transfer
                  \/ SameIgnoringCase(t, FALSE_str) /\ ~parsed[1].val.internal_transfer
            /\ ~SameIgnoringCase(t, TRUE_str) /\ ~SameIgnoringCase(t, FALSE_str)
                  => ~parsed[1].ok

C8_Witness ==
    /\ parsed # <<>>
    /\ parsed[1].ok
    /\ row["Internal Transfer"] = <<"f", "A", "l", "S", "e">>
    /\ ~parsed[1].val.internal_transfer

\* Column of each optional decimal.
DecColumn ==
    [f \in DecFields |->
        CASE f = "received_quantity" -> "Received Quantity"
          [] f = "sent_quantity" -> "Sent Quantity"
          [] f = "fee_amount" -> "Fee Amount"
          [] f = "market_value" -> "Market Value"]

\* C9: the row serialized from a parsed record parses back to an equal
\* record; internal_transfer is written as TRUE or FALSE and read back as the
\* same boolean, an absent optional decimal is written as an empty field and
\* read back as absent.
C9_RoundTrip ==
    reparsed # <<>> =>
        /\ reparsed[1].ok
        /\ eq(reparsed[1].val, parsed[1].val)
        /\ out_row[1]["Internal Transfer"] =
              (IF parsed[1].val.internal_transfer THEN TRUE_str ELSE FALSE_str)
        /\ reparsed[1].val.internal_transfer = parsed[1].val.internal_transfer
        /\ \A f \in DecFields :
              is_none(parsed[1].val[f]) =>
                  /\ out_row[1][DecColumn[f]] = <<>>
                  /\ is_none(reparsed[1].val[f])

C9_Witness ==
    /\ reparsed # <<>>
    /\ row["Internal Transfer"] = <<"t", "r", "u", "e">>
    /\ row["Received Quantity"] = <<"3", "e", "-", "7">>
    /\ row["Sent Quantity"] = <<>>
    /\ out_row[1]["Received Quantity"] # row["Received Quantity"]
    /\ reparsed[1].ok
    /\ reparsed[1].val.internal_transfer

\* The record's twelve fields rendered in CSV column order.
InColumnOrder(self) ==
    Join(<<time_ms_to_utc_string(self.time),
           TypeDebug(self.type_txs),
           dec_to_string_or_empty(self.received_quantity),
           self.received_currency,
           dec_to_string_or_empty(self.sent_quantity),
           self.sent_currency,
           self.fee_currency,
           dec_to_string_or_empty(self.fee_amount),
           dec_to_string_or_empty(self.market_value),
           self.source,
           BoolDisplay(self.internal_transfer),
           self.external_id>>, <<",">>)

\* C10: the display string renders the twelve fields, comma-separated, in the
\* column order Date, Transaction Type, Received Quantity, Received Currency,
\* Sent Quantity, Sent Currency, Fee Currency, Fee Amount, Market Value,
\* Source, Internal Transfer, External ID, an absent decimal as nothing.
C10_DisplayInColumnOrder ==
    res.op = "fmt" => res.val = InColumnOrder(Tbr)

====
